---- MODULE Spec2Model ----
(***************************************************************************)
(* cargo-script: the script cache.  A model of src/main.rs: try_main, the  *)
(* dependency arguments, cache_action_for, compile and its rollback,       *)
(* clean_cache and the deferred age sweep, over a small file system.       *)
(*                                                                         *)
(* Text is a sequence of one-character strings, an Option is a sequence of *)
(* length 0 (None) or 1 (Some), a Result is a record with a field ok.      *)
(***************************************************************************)
EXTENDS Integers, Sequences, FiniteSets, TLC

\* ------------------------------------------------------------------ bounds

\* The clock (platform::current_time, in ms) runs from MAX_CACHE_AGE_MS to MaxTime.
MaxTime == 2
\* Invocations of the program in one behaviour.
MaxRuns == 3
\* File system operations that fail in one behaviour.
MaxFaults == 2

\* consts::MAX_CACHE_AGE_MS, scaled to the model's clock.
MAX_CACHE_AGE_MS == 1

Procs == {1, 2}

None == <<>>
Some(x) == <<x>>

\* ------------------------------------------------------------ text helpers

\* str::find('='): the index of the first "=", 0 when there is none.
RECURSIVE FindFrom(_, _, _)
FindFrom(s, ch, i) ==
    IF i > Len(s) THEN 0
    ELSE IF s[i] = ch THEN i
    ELSE FindFrom(s, ch, i + 1)

Find(s, ch) == FindFrom(s, ch, 1)

\* The order of characters (their code points, for the characters used).
CharOrder == <<"*", "1", "2", "=", "a", "b">>

CharRank(c) == CHOOSE i \in 1..Len(CharOrder) : CharOrder[i] = c

\* Ord for str: lexicographic, a proper prefix first.
RECURSIVE StrLess(_, _)
StrLess(s, t) ==
    IF t = <<>> THEN FALSE
    ELSE IF s = <<>> THEN TRUE
    ELSE IF s[1] = t[1] THEN StrLess(Tail(s), Tail(t))
    ELSE CharRank(s[1]) < CharRank(t[1])

\* Ord for (String, String).
DepLess(d, e) ==
    \/ StrLess(d[1], e[1])
    \/ d[1] = e[1] /\ StrLess(d[2], e[2])

\* ------------------------------------------------- dependencies (try_main)

\* Append '=*' if it needs it.
DepNormalise(dep) == IF Find(dep, "=") = 0 THEN dep \o <<"=", "*">> ELSE dep

\* splitn(2, '='): the name and the version of a normalised spec.
DepName(dep) == SubSeq(dep, 1, Find(dep, "=") - 1)

DepVersion(dep) == SubSeq(dep, Find(dep, "=") + 1, Len(dep))

\* One turn of the loop over args.dep; m is the HashMap so far, a set of
\* <<name, version>> with one entry per name.
DepInsertLastWins(m, dep) ==
    LET d == DepNormalise(dep)
    IN  [ok |-> TRUE, err |-> "",
         map |-> {e \in m : e[1] # DepName(d)} \cup {<<DepName(d), DepVersion(d)>>}]

DepInsert(m, dep) ==
    LET d == DepNormalise(dep)
        name == DepName(d)
        version == DepVersion(d)
    IN  IF name = <<>> THEN [ok |-> FALSE, err |-> "empty_name", map |-> m]
        ELSE IF version = <<>> THEN [ok |-> FALSE, err |-> "empty_version", map |-> m]
        ELSE IF \E e \in m : e[1] = name
             THEN IF <<name, version>> \in m
                  THEN [ok |-> TRUE, err |-> "", map |-> m]
                  ELSE [ok |-> FALSE, err |-> "conflict", map |-> m]
             ELSE [ok |-> TRUE, err |-> "", map |-> m \cup {<<name, version>>}]

RECURSIVE DepFold(_, _)
DepFold(m, args) ==
    IF args = <<>> THEN [ok |-> TRUE, err |-> "", map |-> m]
    ELSE LET r == DepInsert(m, Head(args))
         IN  IF r.ok THEN DepFold(r.map, Tail(args)) ELSE r

\* deps.into_iter().collect() in any order.
RECURSIVE SetToSeq(_)
SetToSeq(S) ==
    IF S = {} THEN <<>>
    ELSE LET x == CHOOSE y \in S : TRUE IN <<x>> \o SetToSeq(S \ {x})

\* The block `let deps = { ... }`: the sorted list, or the user error.
BuildDeps(args) ==
    LET r == DepFold({}, args)
    IN  IF r.ok THEN [ok |-> TRUE, err |-> "", deps |-> SortSeq(SetToSeq(r.map), DepLess)]
        ELSE [ok |-> FALSE, err |-> r.err, deps |-> <<>>]

\* ------------------------------------------------------------------ Input

\* enum Input: File(name, path, content, mtime), Expr(content), Loop(content, count).
FileInput(name, path, content, mtime) ==
    [kind |-> "File", name |-> name, path |-> path, content |-> content,
     mtime |-> mtime, count |-> FALSE]

ExprInput(content) ==
    [kind |-> "Expr", name |-> "", path |-> "", content |-> content,
     mtime |-> 0, count |-> FALSE]

LoopInput(content, count) ==
    [kind |-> "Loop", name |-> "", path |-> "", content |-> content,
     mtime |-> 0, count |-> count]

\* Input::safe_name
safe_name(input) ==
    CASE input.kind = "File" -> input.name
      [] input.kind = "Expr" -> "expr"
      [] input.kind = "Loop" -> "loop"

\* The closure hash_deps of compute_id: what the hasher is fed for the dependencies.
RECURSIVE hash_deps_names(_)
hash_deps_names(deps) ==
    IF deps = <<>> THEN <<>>
    ELSE <<"d", "e", "p", "=">> \o Head(deps)[1] \o <<";">> \o hash_deps_names(Tail(deps))

RECURSIVE hash_deps(_)
hash_deps(deps) ==
    IF deps = <<>> THEN <<>>
    ELSE <<"d", "e", "p", "=">> \o Head(deps)[1] \o <<"=">> \o Head(deps)[2] \o <<";">>
         \o hash_deps(Tail(deps))

\* The bytes compute_id feeds to the hasher, per variant: the text of an
\* expression and of the dependencies character by character, the path of a file
\* as one piece.
HashedBytesWithContent(input, deps) ==
    CASE input.kind = "File" -> <<input.path, input.content>>
      [] OTHER -> hash_deps(deps) \o input.content

HashedBytes(input, deps) ==
    CASE input.kind = "File" -> <<input.path>>
      [] input.kind = "Expr" -> hash_deps(deps) \o input.content
      [] input.kind = "Loop" ->
            hash_deps(deps)
            \o <<"c", "o", "u", "n", "t", ":">>
            \o (IF input.count THEN <<"t", "r", "u", "e", ";">>
                ELSE <<"f", "a", "l", "s", "e", ";">>)
            \o input.content

\* const STUB_HASHES
STUB_HASHES == FALSE

\* Input::compute_id: prefix, safe name (File only) and digest.  The digest of a
\* byte string is the byte string: a digest without collisions.
compute_id(input, deps) ==
    [prefix |-> CASE input.kind = "File" -> "file-"
                  [] input.kind = "Expr" -> "expr-"
                  [] input.kind = "Loop" -> "loop-",
     name |-> IF input.kind = "File" THEN input.name ELSE "",
     digest |-> IF STUB_HASHES THEN <<"stub">> ELSE HashedBytes(input, deps)]

\* ------------------------------------------------------- PackageMetadata

\* struct PackageMetadata, as cache_action_for builds it from the input.
InputMeta(input, debug, deps) ==
    [path |-> IF input.kind = "File" THEN Some(input.path) ELSE None,
     modified |-> IF input.kind = "File" THEN Some(input.mtime) ELSE None,
     debug |-> debug,
     deps |-> deps]

NoMeta == [path |-> None, modified |-> None, debug |-> FALSE, deps |-> <<>>]

\* A slot is the metadata file and the executables under target/, by profile; the
\* model leaves Cargo.toml and the script file out, which the program only writes.
\* The metadata file of a slot: st is "none" (no file), "ok" (val as written by
\* write_pkg_metadata), "json_bad" (text that does not decode: empty or cut
\* short) or "utf8_bad" (bytes cut inside a multi-byte character).
NoMetaFile == [st |-> "none", val |-> NoMeta, mtime |-> 0]

\* A path with a character outside ASCII: its JSON text has multi-byte characters.
MultiBytePaths == {"/home/zoe/s.rs"}

HasMultiByte(meta) == meta.path # None /\ meta.path[1] \in MultiBytePaths

\* get_exe_path: target/<profile>/<safe name><EXE_SUFFIX> inside the slot.
Profile(meta) == IF meta.debug THEN "debug" ELSE "release"

\* get_pkg_metadata on a slot's metadata file: Ok(meta), Err, or the panic of
\* read_to_string(..).unwrap().
get_pkg_metadata(fs, id) ==
    IF id \notin DOMAIN fs THEN [res |-> "err", meta |-> NoMeta]
    ELSE CASE fs[id].meta.st = "none" -> [res |-> "err", meta |-> NoMeta]
           [] fs[id].meta.st = "utf8_bad" -> [res |-> "panic", meta |-> NoMeta]
           [] fs[id].meta.st = "json_bad" -> [res |-> "err", meta |-> NoMeta]
           [] fs[id].meta.st = "ok" -> [res |-> "ok", meta |-> fs[id].meta.val]

\* exe_path.is_file()
ExeIsFile(fs, id, meta) == id \in DOMAIN fs /\ Profile(meta) \in fs[id].exe

\* `cache_meta != input_meta` of cache_action_for
MetaDiffersButForModified(cache_meta, input_meta) ==
    [cache_meta EXCEPT !.modified = None] # [input_meta EXCEPT !.modified = None]

MetaDiffers(cache_meta, input_meta) == cache_meta # input_meta

\* cache_action_for: (action, pkg_path, meta), or a panic.
cache_action_for(fs, input, debug, deps) ==
    LET id == compute_id(input, deps)
        input_meta == InputMeta(input, debug, deps)
        loaded == get_pkg_metadata(fs, id)
        action ==
            IF loaded.res = "err" THEN "Compile"
            ELSE IF MetaDiffers(loaded.meta, input_meta) THEN "Compile"
            ELSE IF ~ExeIsFile(fs, id, input_meta) THEN "Compile"
            ELSE "Execute"
    IN  [panic |-> loaded.res = "panic",
         action |-> IF loaded.res = "panic" THEN "Compile" ELSE action,
         pkg_path |-> id,
         meta |-> input_meta]

\* ------------------------------------------------------- the inputs of a run

\* Script texts, by what split_input and compile make of them: "main" splits and
\* contains `fn main`, "nomain" splits and does not, "nosrc" has neither a divider
\* nor a marker line, the embedded manifest of "badtoml" does not parse, that of
\* "badmerge" has a text where the defaults have a table.
ScriptTexts == {"main", "nomain", "nosrc", "badtoml", "badmerge"}

\* split_input: Err("could not locate start of Rust source in script"),
\* Err("could not parse embedded manifest"), the error of merge_manifest, or Ok.
SplitFails(input) ==
    input.kind = "File" /\ input.content \in {"nosrc", "badtoml", "badmerge"}

\* `script_str.contains("fn main")`; the Expr and Loop templates define main.
ContainsFnMain(input) == input.kind # "File" \/ input.content = "main"

\* The inputs of the invocations: a script file in its three texts, and an expression.
RunInputs ==
    {FileInput("s", "/home/zoe/s.rs", c, 1) : c \in ScriptTexts} \cup {ExprInput(<<"1", "+", "1">>)}

\* The --dep arguments of the invocations: none, and the conflicting pair a, a=1.
RunDeps == {<<>>, << <<"a">>, <<"a", "=", "1">> >>}

\* struct Args and the input read from it.  --force, --debug, --build-only and
\* --dep require <script>.  A field is drawn where try_main first reads it.
NoInput == ExprInput(<<>>)

NoArgs ==
    [script |-> FALSE, input |-> NoInput, clear_cache |-> FALSE,
     force |-> FALSE, debug |-> FALSE, dep |-> <<>>]

\* ------------------------------------------------------------ file system

Profiles == {"debug", "release"}

\* What an executable under target/ is: the product of a build for the metadata
\* meta, of the script or (dummy) of the `fn main() {}` of extract_lib_names.
Built(m, dummy) == Some([meta |-> m, dummy |-> dummy])

NoProgs == [pr \in Profiles |-> None]

\* A slot directory just made by create_dir_all: exe is the set of profiles with
\* an executable, prog what each of them is.
EmptySlot == [meta |-> NoMetaFile, exe |-> {}, prog |-> NoProgs]

\* A file that is not a directory, lying in the cache root.
StrayFile == [prefix |-> "stray", name |-> "", digest |-> <<>>]

\* What a failed fs::remove_dir_all may leave of a slot: the directory, with any
\* of its files already removed.
PartlyRemoved(s) ==
    {[meta |-> m, exe |-> e, prog |-> [pr \in Profiles |-> IF pr \in e THEN s.prog[pr] ELSE None]] :
        m \in {s.meta, NoMetaFile}, e \in SUBSET s.exe}

NoSlots == [x \in {} |-> EmptySlot]

\* The map f without the key k.
Without(f, k) == [x \in DOMAIN f \ {k} |-> f[x]]

VARIABLES
    now,          \* platform::current_time()
    cacheExists,  \* the cache root (get_cache_path) is a directory
    slot,         \* the slot directories of the cache root, by identifier
    rootFiles,    \* the children of the cache root that are files
    runs,         \* invocations started
    faults,       \* file system failures so far
    active,       \* the processes that run the program
    pc,           \* where each invocation is in try_main
    args,         \* parse_args()
    deps,         \* the sorted dependency list
    action,       \* cache_action_for's CacheAction
    pkg_path,     \* cache_action_for's slot
    meta,         \* cache_action_for's PackageMetadata
    result,       \* what try_main returns
    sweep,        \* the running clean_cache: [ctx, cutoff, todo, res]
    hist          \* what the invocation has done so far

vars ==
    <<now, cacheExists, slot, rootFiles, runs, faults, active, pc, args, deps,
      action, pkg_path, meta, result, sweep, hist>>

fsVars == <<cacheExists, slot, rootFiles>>

runVars == <<args, deps, action, pkg_path, meta>>

NoSweep == [ctx |-> "none", cutoff |-> 0, todo |-> {}, snap |-> {}, res |-> "none"]

\* hist: built is the outcome of the external build ("no", "ok", "failed"), wrote
\* says write_pkg_metadata wrote the metadata file, rollback is what the rollback
\* of compile did ("no", "removed", "failed"), decided says cache_action_for
\* returned, full and age count the sweeps begun, exams holds what each sweep step
\* saw and did, hadMeta says the slot's metadata loaded at the decision, made says
\* create_dir_all of compile returned Ok.
NoHist ==
    [built |-> "no", wrote |-> FALSE, rollback |-> "no", decided |-> FALSE,
     hadMeta |-> FALSE, compiled |-> FALSE, made |-> FALSE, full |-> 0, age |-> 0,
     exams |-> {}]

NoId == compute_id(NoInput, <<>>)

InitCommon ==
    /\ now = MAX_CACHE_AGE_MS
    /\ cacheExists \in BOOLEAN
    /\ slot = NoSlots
    /\ rootFiles = (IF cacheExists THEN {StrayFile} ELSE {})
    /\ runs = 0
    /\ faults = 0
    /\ pc = [p \in Procs |-> "idle"]
    /\ args = [p \in Procs |-> NoArgs]
    /\ deps = [p \in Procs |-> <<>>]
    /\ action = [p \in Procs |-> "Compile"]
    /\ pkg_path = [p \in Procs |-> NoId]
    /\ meta = [p \in Procs |-> NoMeta]
    /\ result = [p \in Procs |-> "none"]
    /\ sweep = [p \in Procs |-> NoSweep]
    /\ hist = [p \in Procs |-> NoHist]

\* One invocation at a time.
Init == InitCommon /\ active = {1}

\* ------------------------------------------------------------- clean_cache

\* `platform::current_time() - max_age`
Cutoff(t, max_age) == t - max_age

\* The closure remove_dir of clean_cache, for a child directory: true when the
\* metadata file cannot be opened, else `meta_mtime <= cutoff`.
MetaOpens(fs, c) == c \in DOMAIN fs /\ fs[c].meta.st # "none"

remove_dir_always(fs, c, cutoff) == TRUE

remove_dir_keeps_unreadable(fs, c, cutoff) ==
    IF ~MetaOpens(fs, c) THEN FALSE ELSE fs[c].meta.mtime <= cutoff

remove_dir_strictly_older(fs, c, cutoff) ==
    IF ~MetaOpens(fs, c) THEN TRUE ELSE fs[c].meta.mtime < cutoff

remove_dir(fs, c, cutoff) ==
    IF ~MetaOpens(fs, c) THEN TRUE ELSE fs[c].meta.mtime <= cutoff

\* clean_cache up to the loop: the cutoff, then read_dir of the cache root, which
\* fails when the root does not exist.
BeginSweep(p, max_age, ctx) ==
    /\ sweep' = [sweep EXCEPT ![p] =
            IF cacheExists
            THEN [ctx |-> ctx, cutoff |-> Cutoff(now, max_age),
                  todo |-> DOMAIN slot \cup rootFiles,
                  snap |-> DOMAIN slot \cup rootFiles, res |-> "running"]
            ELSE [ctx |-> ctx, cutoff |-> Cutoff(now, max_age),
                  todo |-> {}, snap |-> {}, res |-> "err"]]
    /\ pc' = [pc EXCEPT ![p] = IF cacheExists THEN "sweep" ELSE "swept"]

\* What a sweep step records of the child it examined.
Exam(p, c, attempt, failed) ==
    [child |-> c, ctx |-> sweep[p].ctx, cutoff |-> sweep[p].cutoff,
     isFile |-> c \in rootFiles,
     opened |-> MetaOpens(slot, c),
     mtime |-> IF MetaOpens(slot, c) THEN slot[c].meta.mtime ELSE 0,
     attempt |-> attempt, failed |-> failed]

\* A deletion failure in the loop: logged, and the loop goes on.
SweepAbortedByFailure(sw, c) == [sw EXCEPT !.todo = {}, !.res = "err"]

SweepAfterFailure(sw, c) == [sw EXCEPT !.todo = @ \ {c}]

\* One turn of the loop `for child in read_dir(cache_dir)`.
SweepChild(p) ==
    /\ pc[p] = "sweep"
    /\ \E c \in sweep[p].todo :
        \/ \* `if path.is_file() { continue }`, or remove_dir() is false
           /\ c \in rootFiles \/ ~remove_dir(slot, c, sweep[p].cutoff)
           /\ sweep' = [sweep EXCEPT ![p].todo = @ \ {c}]
           /\ hist' = [hist EXCEPT ![p].exams = @ \cup {Exam(p, c, FALSE, FALSE)}]
           /\ UNCHANGED <<slot, faults>>
        \/ \* fs::remove_dir_all(&path) succeeds
           /\ c \notin rootFiles /\ remove_dir(slot, c, sweep[p].cutoff)
           /\ c \in DOMAIN slot
           /\ slot' = Without(slot, c)
           /\ sweep' = [sweep EXCEPT ![p].todo = @ \ {c}]
           /\ hist' = [hist EXCEPT ![p].exams = @ \cup {Exam(p, c, TRUE, FALSE)}]
           /\ UNCHANGED faults
        \/ \* fs::remove_dir_all(&path) fails: the directory stays
           /\ c \notin rootFiles /\ remove_dir(slot, c, sweep[p].cutoff)
           /\ IF c \in DOMAIN slot
              THEN /\ faults < MaxFaults
                   /\ faults' = faults + 1
                   /\ \E s \in PartlyRemoved(slot[c]) : slot' = [slot EXCEPT ![c] = s]
              ELSE UNCHANGED <<slot, faults>>
           /\ sweep' = [sweep EXCEPT ![p] = SweepAfterFailure(@, c)]
           /\ hist' = [hist EXCEPT ![p].exams = @ \cup {Exam(p, c, TRUE, TRUE)}]
    /\ UNCHANGED <<now, cacheExists, rootFiles, runs, active, pc, runVars, result>>

\* The loop is over: `Ok(())`.
SweepEnd(p) ==
    /\ pc[p] = "sweep"
    /\ sweep[p].todo = {}
    /\ sweep' = [sweep EXCEPT ![p].res = IF @ = "running" THEN "ok" ELSE @]
    /\ pc' = [pc EXCEPT ![p] = "swept"]
    /\ UNCHANGED <<now, fsVars, runs, faults, active, runVars, result, hist>>

\* ---------------------------------------------------------------- try_main

\* try_main returns r, and its locals are dropped.
Return(p, r) ==
    /\ pc' = [pc EXCEPT ![p] = "exit"]
    /\ result' = [result EXCEPT ![p] = r]
    /\ args' = [args EXCEPT ![p] = [NoArgs EXCEPT !.clear_cache = args[p].clear_cache,
                                                 !.script = args[p].script]]
    /\ deps' = [deps EXCEPT ![p] = <<>>]
    /\ action' = [action EXCEPT ![p] = "Compile"]
    /\ meta' = [meta EXCEPT ![p] = NoMeta]

\* try_main goes on to the step at, with its locals as they are.
Goto(p, at) ==
    /\ pc' = [pc EXCEPT ![p] = at]
    /\ UNCHANGED <<result, args, deps, action, meta>>

\* parse_args()
Start(p) ==
    /\ p \in active
    /\ pc[p] = "idle"
    /\ runs < MaxRuns
    /\ runs' = runs + 1
    /\ UNCHANGED <<deps, action, pkg_path, meta, result, sweep, hist>>
    /\ \E sc \in BOOLEAN, cc \in BOOLEAN :
            args' = [args EXCEPT ![p] = [NoArgs EXCEPT !.script = sc, !.clear_cache = cc]]
    /\ pc' = [pc EXCEPT ![p] = "parsed"]
    /\ UNCHANGED <<now, fsVars, faults, active>>

\* `if args.clear_cache { try!(clean_cache(0)); ... }`
ClearCache(p) ==
    /\ pc[p] = "parsed"
    /\ IF args[p].clear_cache
       THEN /\ BeginSweep(p, 0, "full")
            /\ hist' = [hist EXCEPT ![p].full = @ + 1]
       ELSE /\ pc' = [pc EXCEPT ![p] = "input"]
            /\ UNCHANGED <<sweep, hist>>
    /\ UNCHANGED <<now, fsVars, runs, faults, active, runVars, result>>

\* clean_cache(0) has returned: its error is try_main's; without a <script>,
\* "cargo script cache cleared." and Ok(0).
AfterClear(p) ==
    /\ pc[p] = "swept"
    /\ sweep[p].ctx = "full"
    /\ IF sweep[p].res # "ok" THEN Return(p, "internal")
       ELSE IF ~args[p].script THEN Return(p, "ok")
       ELSE Goto(p, "input")
    /\ UNCHANGED <<now, fsVars, runs, faults, active, pkg_path, sweep, hist>>

\* `let input = match (args.script, args.expr, args.loop_)`: no script, or a
\* script find_script does not find, is an error.
ReadInput(p) ==
    /\ pc[p] = "input"
    /\ \/ \* no <script>, or find_script finds none
          Return(p, "human")
       \/ /\ args[p].script
          /\ \E i \in RunInputs : args' = [args EXCEPT ![p].input = i]
          /\ pc' = [pc EXCEPT ![p] = "deps"]
          /\ UNCHANGED <<result, deps, action, meta>>
    /\ UNCHANGED <<now, fsVars, runs, faults, active, pkg_path, sweep, hist>>

\* `let deps = { ... }`
SortDeps(p) ==
    /\ pc[p] = "deps"
    /\ \E d \in RunDeps :
        LET r == BuildDeps(d)
        IN  IF r.ok
            THEN /\ args' = [args EXCEPT ![p].dep = d]
                 /\ deps' = [deps EXCEPT ![p] = r.deps]
                 /\ pc' = [pc EXCEPT ![p] = "decide"]
                 /\ UNCHANGED <<result, action, meta>>
            ELSE Return(p, "human")
    /\ UNCHANGED <<now, fsVars, runs, faults, active, pkg_path, sweep, hist>>

\* `let (action, pkg_path, meta) = cache_action_for(&input, args.debug, deps)`
Decide(p) ==
    /\ pc[p] = "decide"
    /\ \E dbg \in BOOLEAN :
       LET r == cache_action_for(slot, args[p].input, dbg, deps[p])
       IN  /\ pkg_path' = [pkg_path EXCEPT ![p] = r.pkg_path]
           /\ IF r.panic
              THEN Return(p, "panic") /\ UNCHANGED hist
              ELSE /\ args' = [args EXCEPT ![p].debug = dbg]
                   /\ action' = [action EXCEPT ![p] = r.action]
                   /\ meta' = [meta EXCEPT ![p] = r.meta]
                   /\ pc' = [pc EXCEPT ![p] = "decided"]
                   /\ hist' = [hist EXCEPT ![p].decided = TRUE,
                                            ![p].hadMeta = get_pkg_metadata(slot, r.pkg_path).res = "ok"]
                   /\ UNCHANGED <<result, deps>>
    /\ UNCHANGED <<now, fsVars, runs, faults, active, sweep>>

\* `if action == CacheAction::Compile || args.force`
NeedCompileByActionOnly(act, force) == act = "Compile"

NeedCompile(act, force) == act = "Compile" \/ force

\* Compile if we need it.
Branch(p) ==
    /\ pc[p] = "decided"
    /\ \E force \in BOOLEAN :
        /\ args' = [args EXCEPT ![p].force = force]
        /\ IF NeedCompile(action[p], force)
           THEN /\ pc' = [pc EXCEPT ![p] = "compile"]
                /\ hist' = [hist EXCEPT ![p].compiled = TRUE]
           ELSE /\ pc' = [pc EXCEPT ![p] = "defer"]
                /\ UNCHANGED hist
    /\ UNCHANGED <<now, fsVars, runs, faults, active, deps, action, pkg_path, meta,
                   result, sweep>>

\* ----------------------------------------------------------------- compile

\* util::Defer: the closure runs when the guard is dropped, unless disarm() was
\* called on it.
DeferRuns(disarmed) == ~disarmed

\* `let (mani_str, script_str) = try!(split_input(input, &meta.deps))`
CompileSplitAfterMkdir(p) ==
    /\ pc[p] = "compile"
    /\ cacheExists' = TRUE
    /\ slot' = IF pkg_path[p] \in DOMAIN slot THEN slot
               ELSE (pkg_path[p] :> EmptySlot) @@ slot
    /\ IF SplitFails(args[p].input) THEN Return(p, "human") ELSE Goto(p, "mkdir")
    /\ UNCHANGED <<now, rootFiles, runs, faults, active, pkg_path, sweep, hist>>

CompileSplit(p) ==
    /\ pc[p] = "compile"
    /\ IF SplitFails(args[p].input) THEN Return(p, "human") ELSE Goto(p, "mkdir")
    /\ UNCHANGED <<now, fsVars, runs, faults, active, pkg_path, sweep, hist>>

\* `try!(fs::create_dir_all(pkg_path))`, then cleanup_dir is armed.
CompileMkdir(p) ==
    /\ pc[p] = "mkdir"
    /\ \/ /\ cacheExists' = TRUE
          /\ slot' = IF pkg_path[p] \in DOMAIN slot THEN slot
                     ELSE (pkg_path[p] :> EmptySlot) @@ slot
          /\ hist' = [hist EXCEPT ![p].made = TRUE]
          /\ Goto(p, "write")
          /\ UNCHANGED faults
       \/ /\ faults < MaxFaults
          /\ faults' = faults + 1
          /\ Return(p, "internal")
          /\ UNCHANGED <<cacheExists, slot, hist>>
    /\ UNCHANGED <<now, rootFiles, runs, active, pkg_path, sweep>>

\* Where compile goes after a step that is wrapped in try!.
AfterSources(ok) == IF ok THEN "build" ELSE "rollback"

AfterBuildIgnoringFailure(ok) == "write_meta"

AfterBuild(ok) == IF ok THEN "write_meta" ELSE "rollback"

\* Cargo.toml and the script file are written.  Without `fn main` in the script,
\* extract_lib_names first writes a dummy script and runs capture_cargo_build,
\* a debug build of it.
CompileWrite(p) ==
    /\ pc[p] = "write"
    /\ LET id == pkg_path[p] IN
       \/ /\ id \in DOMAIN slot
          /\ ContainsFnMain(args[p].input)
          /\ pc' = [pc EXCEPT ![p] = AfterSources(TRUE)]
          /\ UNCHANGED <<slot, faults, hist>>
       \/ /\ id \in DOMAIN slot
          /\ ~ContainsFnMain(args[p].input)
          /\ \/ /\ slot' = [slot EXCEPT ![id].exe = @ \cup {"debug"},
                                         ![id].prog["debug"] = Built(meta[p], TRUE)]
                /\ pc' = [pc EXCEPT ![p] = AfterSources(TRUE)]
                /\ UNCHANGED hist
             \/ /\ hist' = [hist EXCEPT ![p].built = "failed"]
                /\ pc' = [pc EXCEPT ![p] = AfterSources(FALSE)]
                /\ UNCHANGED slot
          /\ UNCHANGED faults
       \/ \* File::create or write! fails
          /\ IF id \in DOMAIN slot
             THEN faults < MaxFaults /\ faults' = faults + 1
             ELSE UNCHANGED faults
          /\ pc' = [pc EXCEPT ![p] = AfterSources(FALSE)]
          /\ UNCHANGED <<slot, hist>>
    /\ UNCHANGED <<now, cacheExists, rootFiles, runs, active, runVars, result, sweep>>

\* `try!(cargo_build(meta, &mani_path))`: status 0 leaves the executable of the
\* profile, anything else is an error.
CompileBuild(p) ==
    /\ pc[p] = "build"
    /\ LET id == pkg_path[p] IN
       \/ /\ id \in DOMAIN slot
          /\ slot' = [slot EXCEPT ![id].exe = @ \cup {Profile(meta[p])},
                                   ![id].prog[Profile(meta[p])] = Built(meta[p], FALSE)]
          /\ hist' = [hist EXCEPT ![p].built = "ok"]
          /\ pc' = [pc EXCEPT ![p] = AfterBuild(TRUE)]
       \/ /\ hist' = [hist EXCEPT ![p].built = "failed"]
          /\ pc' = [pc EXCEPT ![p] = AfterBuild(FALSE)]
          /\ UNCHANGED slot
    /\ UNCHANGED <<now, cacheExists, rootFiles, runs, faults, active, runVars, result,
                   sweep>>

\* write_pkg_metadata: File::create truncates the file, write! fills it.
write_pkg_metadata(t, m) == [st |-> "ok", val |-> m, mtime |-> t]

\* What a write! that fails half way leaves in the file.
CutShort(t, m) ==
    {[st |-> "json_bad", val |-> NoMeta, mtime |-> t]}
    \cup (IF HasMultiByte(m) THEN {[st |-> "utf8_bad", val |-> NoMeta, mtime |-> t]}
          ELSE {})

\* `try!(write_pkg_metadata(pkg_path, meta)); cleanup_dir.disarm();`
CompileWriteMeta(p) ==
    /\ pc[p] = "write_meta"
    /\ LET id == pkg_path[p] IN
       \/ /\ id \in DOMAIN slot
          /\ slot' = [slot EXCEPT ![id].meta = write_pkg_metadata(now, meta[p])]
          /\ hist' = [hist EXCEPT ![p].wrote = TRUE]
          /\ pc' = [pc EXCEPT ![p] = "defer"]
          /\ UNCHANGED faults
       \/ \* write! fails
          /\ id \in DOMAIN slot
          /\ faults < MaxFaults
          /\ faults' = faults + 1
          /\ \E f \in CutShort(now, meta[p]) : slot' = [slot EXCEPT ![id].meta = f]
          /\ hist' = [hist EXCEPT ![p].wrote = TRUE]
          /\ pc' = [pc EXCEPT ![p] = "rollback"]
       \/ \* File::create fails
          /\ IF id \in DOMAIN slot
             THEN faults < MaxFaults /\ faults' = faults + 1
             ELSE UNCHANGED faults
          /\ pc' = [pc EXCEPT ![p] = "rollback"]
          /\ UNCHANGED <<slot, hist>>
    /\ UNCHANGED <<now, cacheExists, rootFiles, runs, active, runVars, result, sweep>>

\* The closure of cleanup_dir: `fs::remove_dir_all(pkg_path)`, when it succeeds.
cleanup_dir_kept(fs, id) == fs

cleanup_dir(fs, id) == Without(fs, id)

\* compile returns an error: cleanup_dir is dropped armed, and try_main returns
\* the error.
Rollback(p) ==
    /\ pc[p] = "rollback"
    /\ DeferRuns(FALSE)
    /\ LET id == pkg_path[p] IN
       \/ /\ id \in DOMAIN slot
          /\ slot' = cleanup_dir(slot, id)
          /\ hist' = [hist EXCEPT ![p].rollback = "removed"]
          /\ UNCHANGED faults
       \/ /\ IF id \in DOMAIN slot
             THEN /\ faults < MaxFaults
                  /\ faults' = faults + 1
                  /\ \E s \in PartlyRemoved(slot[id]) : slot' = [slot EXCEPT ![id] = s]
             ELSE UNCHANGED <<slot, faults>>
          /\ hist' = [hist EXCEPT ![p].rollback = "failed"]
    /\ Return(p, "internal")
    /\ UNCHANGED <<now, cacheExists, rootFiles, runs, active, pkg_path, sweep>>

\* ------------------------------------------------- the end of try_main

\* _defer_clear is armed; `if args.build_only { return Ok(0) }`, else the
\* executable is run: its exit code, or an error when it cannot be started.
\* try_main returns: of its locals, the closure of _defer_clear keeps cc.
ExecuteTouchingMeta(p) ==
    /\ pc[p] = "defer"
    /\ result' = [result EXCEPT ![p] = "ok"]
    /\ pc' = [pc EXCEPT ![p] = "drop"]
    /\ args' = [args EXCEPT ![p] = [NoArgs EXCEPT !.clear_cache = args[p].clear_cache]]
    /\ deps' = [deps EXCEPT ![p] = <<>>]
    /\ meta' = [meta EXCEPT ![p] = NoMeta]
    /\ slot' = IF pkg_path[p] \in DOMAIN slot
               THEN [slot EXCEPT ![pkg_path[p]].meta.mtime = now]
               ELSE slot
    /\ UNCHANGED <<now, cacheExists, rootFiles, runs, faults, active, action, pkg_path,
                   sweep, hist>>

Execute(p) ==
    /\ pc[p] = "defer"
    /\ \E build_only \in BOOLEAN :
        IF build_only THEN result' = [result EXCEPT ![p] = "ok"]
        ELSE IF ExeIsFile(slot, pkg_path[p], meta[p])
             THEN \E r \in {"ok", "failed"} : result' = [result EXCEPT ![p] = r]
             ELSE result' = [result EXCEPT ![p] = "internal"]
    /\ pc' = [pc EXCEPT ![p] = "drop"]
    /\ args' = [args EXCEPT ![p] = [NoArgs EXCEPT !.clear_cache = args[p].clear_cache]]
    /\ deps' = [deps EXCEPT ![p] = <<>>]
    /\ meta' = [meta EXCEPT ![p] = NoMeta]
    /\ UNCHANGED <<now, fsVars, runs, faults, active, action, pkg_path, sweep, hist>>

\* The closure of _defer_clear: `if !cc { try!(clean_cache(consts::MAX_CACHE_AGE_MS)) }`
SkipAgeSweepNever(cc) == FALSE

SkipAgeSweep(cc) == cc

\* try_main returns and _defer_clear is dropped.
DeferredSweep(p) ==
    /\ pc[p] = "drop"
    /\ DeferRuns(FALSE)
    /\ IF SkipAgeSweep(args[p].clear_cache)
       THEN /\ pc' = [pc EXCEPT ![p] = "exit"]
            /\ UNCHANGED <<sweep, hist>>
       ELSE /\ BeginSweep(p, MAX_CACHE_AGE_MS, "age")
            /\ hist' = [hist EXCEPT ![p].age = @ + 1]
    /\ UNCHANGED <<now, fsVars, runs, faults, active, runVars, result>>

\* The deferred clean_cache has returned; its result is dropped.
AfterSweep(p) ==
    /\ pc[p] = "swept"
    /\ sweep[p].ctx = "age"
    /\ pc' = [pc EXCEPT ![p] = "exit"]
    /\ UNCHANGED <<now, fsVars, runs, faults, active, runVars, result, sweep, hist>>

\* main: the process exits with try_main's result.
Exit(p) ==
    /\ pc[p] = "exit"
    /\ pc' = [pc EXCEPT ![p] = "idle"]
    /\ args' = [args EXCEPT ![p] = NoArgs]
    /\ deps' = [deps EXCEPT ![p] = <<>>]
    /\ action' = [action EXCEPT ![p] = "Compile"]
    /\ pkg_path' = [pkg_path EXCEPT ![p] = NoId]
    /\ meta' = [meta EXCEPT ![p] = NoMeta]
    /\ result' = [result EXCEPT ![p] = "none"]
    /\ sweep' = [sweep EXCEPT ![p] = NoSweep]
    /\ hist' = [hist EXCEPT ![p] = NoHist]
    /\ UNCHANGED <<now, fsVars, runs, faults, active>>

\* Time passes between invocations: a tick of the clock is the maximal cache age,
\* next to which an invocation takes no time.
Tick ==
    /\ \A p \in Procs : pc[p] = "idle"
    /\ now < MaxTime
    /\ now' = now + 1
    /\ UNCHANGED <<fsVars, runs, faults, active, pc, runVars, result, sweep, hist>>

Step(p) ==
    \/ Start(p)
    \/ ClearCache(p)
    \/ AfterClear(p)
    \/ ReadInput(p)
    \/ SortDeps(p)
    \/ Decide(p)
    \/ Branch(p)
    \/ CompileSplit(p)
    \/ CompileMkdir(p)
    \/ CompileWrite(p)
    \/ CompileBuild(p)
    \/ CompileWriteMeta(p)
    \/ Rollback(p)
    \/ Execute(p)
    \/ DeferredSweep(p)
    \/ SweepChild(p)
    \/ SweepEnd(p)
    \/ AfterSweep(p)
    \/ Exit(p)

Next == (\E p \in Procs : Step(p)) \/ Tick

Spec == Init /\ [][Next]_vars

TypeOK ==
    /\ now \in MAX_CACHE_AGE_MS..MaxTime
    /\ runs \in 0..MaxRuns
    /\ faults \in 0..MaxFaults
    /\ \A p \in Procs : result[p] \in {"none", "ok", "failed", "human", "internal", "panic"}

\* ------------------------------------------- cache_action_for on any slot

\* The inputs, dependency lists and stored slots cache_action_for is applied to.
DecideInputs ==
    {FileInput("s", "/home/zoe/s.rs", "main", m) : m \in {1, 2}} \cup {ExprInput(<<"1", "+", "1">>)}

DecideDeps == {<<>>, << <<(<<"a">>), (<<"1">>)>> >>}

StoredMetas ==
    [path : {None, Some("/home/zoe/s.rs"), Some("/home/zoe/t.rs")},
     modified : {None, Some(1), Some(2)},
     debug : BOOLEAN,
     deps : DecideDeps]

StoredMetaFiles ==
    {NoMetaFile}
    \cup {[st |-> b, val |-> NoMeta, mtime |-> MAX_CACHE_AGE_MS] : b \in {"json_bad", "utf8_bad"}}
    \cup {[st |-> "ok", val |-> m, mtime |-> MAX_CACHE_AGE_MS] : m \in StoredMetas}

\* try_main is about to call cache_action_for, on a cache that holds nothing or
\* the slot of the input in any state.
InitDecide ==
    /\ now = MAX_CACHE_AGE_MS
    /\ cacheExists = TRUE
    /\ rootFiles = {}
    /\ runs = 1
    /\ faults = 0
    /\ active = {1}
    /\ \E i \in DecideInputs, d \in DecideDeps :
        /\ args = [p \in Procs |-> IF p = 1 THEN [NoArgs EXCEPT !.script = TRUE, !.input = i]
                                  ELSE NoArgs]
        /\ deps = [p \in Procs |-> IF p = 1 THEN d ELSE <<>>]
        /\ \/ slot = NoSlots
           \/ \E f \in StoredMetaFiles, e \in SUBSET Profiles :
                slot = (compute_id(i, d) :>
                          [meta |-> f, exe |-> e,
                           prog |-> [pr \in Profiles |->
                                       IF pr \in e THEN Built(f.val, FALSE) ELSE None]])
    /\ pc = [p \in Procs |-> IF p = 1 THEN "decide" ELSE "idle"]
    /\ action = [p \in Procs |-> "Compile"]
    /\ pkg_path = [p \in Procs |-> NoId]
    /\ meta = [p \in Procs |-> NoMeta]
    /\ result = [p \in Procs |-> "none"]
    /\ sweep = [p \in Procs |-> NoSweep]
    /\ hist = [p \in Procs |-> NoHist]

NextDecide == \E p \in Procs : Decide(p) \/ Branch(p)

SpecDecide == InitDecide /\ [][NextDecide]_vars

\* ---------------------------------------------- split_input, the File arm

\* Lines of a script in one behaviour of SpecSplit.
MaxLines == 3

NL == "\n"

CR == "\r"

\* char::is_whitespace, for the characters used.
IsWhitespace(c) == c \in {" ", "\t", CR, NL}

\* str::starts_with
StartsWith(s, prefix) ==
    Len(prefix) <= Len(s) /\ SubSeq(s, 1, Len(prefix)) = prefix

\* str::trim_left
RECURSIVE trim_left(_)
trim_left(s) ==
    IF s # <<>> /\ IsWhitespace(s[1]) THEN trim_left(Tail(s)) ELSE s

\* str::lines_any from the offset from on: each line with the offset of its first
\* character in the content, without its "\n" and without a "\r" before that;
\* no empty line after the last "\n".
RECURSIVE LinesFrom(_, _)
LinesFrom(content, from) ==
    IF from >= Len(content) THEN <<>>
    ELSE LET nl == FindFrom(content, NL, from + 1)
             end == IF nl = 0 THEN Len(content) ELSE nl - 1
             raw == SubSeq(content, from + 1, end)
             text == IF raw # <<>> /\ raw[Len(raw)] = CR
                     THEN SubSeq(raw, 1, Len(raw) - 1) ELSE raw
         IN  <<[start |-> from, text |-> text]>>
             \o (IF nl = 0 THEN <<>> ELSE LinesFrom(content, nl))

lines_any(content) == LinesFrom(content, 0)

\* `line.starts_with("#!") && !line.starts_with("#![")`
IsHashbang(line) ==
    StartsWith(line, <<"#", "!">>) /\ ~StartsWith(line, <<"#", "!", "[">>)

\* `if skip { lines.next(); }`: the lines the loop goes over.
ScannedLines(content) ==
    LET lines == lines_any(content)
    IN  IF lines # <<>> /\ IsHashbang(lines[1].text) THEN Tail(lines) ELSE lines

\* "Did we get a dash separator?": nothing but whitespace and dashes, and at
\* least three dashes.
IsDashDivider(line) ==
    /\ \A i \in 1..Len(line) : IsWhitespace(line[i]) \/ line[i] = "-"
    /\ Cardinality({i \in 1..Len(line) : line[i] = "-"}) >= 3

SPLIT_MARKERS ==
    { <<"/", "/">>, <<"/", "*">>, <<"#", "!", "[">>, <<"#", "[">>,
      <<"p", "u", "b", " ">>, <<"e", "x", "t", "e", "r", "n", " ">>,
      <<"u", "s", "e", " ">>, <<"m", "o", "d", " ">>, <<"t", "y", "p", "e", " ">>,
      <<"s", "t", "r", "u", "c", "t", " ">>, <<"e", "n", "u", "m", " ">>,
      <<"f", "n", " ">>, <<"i", "m", "p", "l", " ">>, <<"i", "m", "p", "l", "<">>,
      <<"s", "t", "a", "t", "i", "c", " ">>, <<"c", "o", "n", "s", "t", " ">> }

\* `line_trimmed.starts_with(marker)` for some marker
IsMarkerLine(line) == \E marker \in SPLIT_MARKERS : StartsWith(trim_left(line), marker)

\* manifest_end and source_start, as offsets into the content.
NoHit == [manifest_end |-> None, source_start |-> None]

\* `Some(&line[0..0])` and `Some(&line[line.len()..])`
DividerHit(line) ==
    [manifest_end |-> Some(line.start), source_start |-> Some(line.start + Len(line.text))]

\* `Some(&line[0..])`, twice
MarkerHitIgnored(line, hit) == hit

MarkerHit(line, hit) ==
    [manifest_end |-> Some(line.start), source_start |-> Some(line.start)]

\* `for line in lines`: a divider sets the offsets and breaks out of the loop; a
\* marker sets the offsets, and its `break` leaves the loop over SPLIT_MARKERS
\* only, so that the loop over the lines goes on.
RECURSIVE ScanLines(_, _)
ScanLines(lines, hit) ==
    IF lines = <<>> THEN hit
    ELSE LET line == Head(lines)
         IN  IF IsDashDivider(line.text) THEN DividerHit(line)
             ELSE ScanLines(Tail(lines),
                            IF IsMarkerLine(line.text) THEN MarkerHit(line, hit) ELSE hit)

\* `&content[..content.subslice_offset(me)]`
ManifestSliceAfterHashbang(content, me) ==
    LET lines == lines_any(content)
    IN  IF lines # <<>> /\ IsHashbang(lines[1].text) /\ Len(lines) > 1
        THEN SubSeq(content, lines[2].start + 1, me)
        ELSE SubSeq(content, 1, me)

ManifestSlice(content, me) == SubSeq(content, 1, me)

\* `&content[content.subslice_offset(ss)..]`
SourceSliceAfterLine(content, ss) ==
    IF ss < Len(content) /\ content[ss + 1] = NL THEN SubSeq(content, ss + 2, Len(content))
    ELSE SubSeq(content, ss + 1, Len(content))

SourceSlice(content, ss) == SubSeq(content, ss + 1, Len(content))

\* The File arm of split_input up to `(manifest, source, consts::FILE_TEMPLATE)`:
\* the embedded manifest and the source, or the error "could not locate start of
\* Rust source in script".
split_file(content) ==
    LET hit == ScanLines(ScannedLines(content), NoHit)
    IN  IF hit.manifest_end # None /\ hit.source_start # None
        THEN [ok |-> TRUE,
              manifest |-> ManifestSlice(content, hit.manifest_end[1]),
              source |-> SourceSlice(content, hit.source_start[1])]
        ELSE [ok |-> FALSE, manifest |-> <<>>, source |-> <<>>]

\* The lines scripts are made of in SpecSplit: a hashbang, an inner attribute, dash
\* dividers, two dashes, marker lines, lines of a manifest, an empty line.
SplitLineTexts ==
    { <<"#", "!", "x">>, <<"#", "!", "[">>, <<"-", "-", "-">>, <<"-", " ", "-", "-">>,
      <<"-", "-">>, <<"f", "n", " ">>, <<" ", "/", "/">>, <<"f", "n">>, <<"a">>, <<>> }

\* The lines joined, each ended by term but the last, which final says.
RECURSIVE JoinLines(_, _, _)
JoinLines(ls, term, final) ==
    IF ls = <<>> THEN <<>>
    ELSE Head(ls)
         \o (IF Len(ls) > 1 \/ final THEN term ELSE <<>>)
         \o JoinLines(Tail(ls), term, final)

SplitContents ==
    {JoinLines(ls, term, final) :
        ls \in UNION {[1..n -> SplitLineTexts] : n \in 0..MaxLines},
        term \in {<<NL>>, <<CR, NL>>},
        final \in BOOLEAN}

\* compile is about to call split_input on a script file.
InitSplit ==
    /\ now = MAX_CACHE_AGE_MS
    /\ cacheExists = TRUE
    /\ slot = NoSlots
    /\ rootFiles = {}
    /\ runs = 1
    /\ faults = 0
    /\ active = {1}
    /\ \E c \in SplitContents :
        args = [p \in Procs |->
                  IF p = 1
                  THEN [NoArgs EXCEPT !.script = TRUE,
                                      !.input = FileInput("s", "/home/zoe/s.rs", c, 1)]
                  ELSE NoArgs]
    /\ deps = [p \in Procs |-> <<>>]
    /\ pc = [p \in Procs |-> IF p = 1 THEN "compile" ELSE "idle"]
    /\ action = [p \in Procs |-> "Compile"]
    /\ pkg_path = [p \in Procs |-> NoId]
    /\ meta = [p \in Procs |-> NoMeta]
    /\ result = [p \in Procs |-> [ok |-> FALSE, manifest |-> <<>>, source |-> <<>>]]
    /\ sweep = [p \in Procs |-> NoSweep]
    /\ hist = [p \in Procs |-> NoHist]

\* split_input of the script file returns its manifest and source, or the error.
SplitFile(p) ==
    /\ pc[p] = "compile"
    /\ args[p].input.kind = "File"
    /\ result' = [result EXCEPT ![p] = split_file(args[p].input.content)]
    /\ pc' = [pc EXCEPT ![p] = "split"]
    /\ UNCHANGED <<now, fsVars, runs, faults, active, runVars, sweep, hist>>

\* split_input of a fresh script file whose content is the source returned.
Resplit(p) ==
    /\ pc[p] = "split"
    /\ result[p].ok
    /\ LET r == split_file(result[p].source)
       IN  result' = [result EXCEPT ![p] =
                [ok |-> r.ok, manifest |-> r.manifest, source |-> r.source,
                 first |-> result[p]]]
    /\ pc' = [pc EXCEPT ![p] = "resplit"]
    /\ UNCHANGED <<now, fsVars, runs, faults, active, runVars, sweep, hist>>

NextSplit == \E p \in Procs : SplitFile(p) \/ Resplit(p)

SpecSplit == InitSplit /\ [][NextSplit]_vars

\* ------------------------------------------- the dependency block on any --dep

\* --dep arguments in one behaviour of SpecDeps.
MaxDeps == 3

\* The --dep arguments: bare names, names with versions, and specs without a name
\* or without a version.
DepSpecTexts ==
    { <<"a">>, <<"a", "=", "1">>, <<"a", "=", "2">>, <<"a", "=", "*">>,
      <<"b">>, <<"b", "=", "1">>, <<"a", "b", "=", "1">>,
      <<"=", "1">>, <<"a", "=">>, <<"=">>, <<>>, <<"a", "=", "1", "=", "2">> }

DepArgs == UNION {[1..n -> DepSpecTexts] : n \in 0..MaxDeps}

NoDepsResult == [ok |-> FALSE, err |-> "", deps |-> <<>>]

\* try_main is about to sort out the dependencies of args.dep.
InitDeps ==
    /\ now = MAX_CACHE_AGE_MS
    /\ cacheExists = TRUE
    /\ slot = NoSlots
    /\ rootFiles = {}
    /\ runs = 1
    /\ faults = 0
    /\ active = {1}
    /\ \E d \in DepArgs :
        args = [p \in Procs |->
                  IF p = 1
                  THEN [NoArgs EXCEPT !.script = TRUE, !.input = ExprInput(<<"1", "+", "1">>), !.dep = d]
                  ELSE NoArgs]
    /\ deps = [p \in Procs |-> <<>>]
    /\ pc = [p \in Procs |-> IF p = 1 THEN "deps" ELSE "idle"]
    /\ action = [p \in Procs |-> "Compile"]
    /\ pkg_path = [p \in Procs |-> NoId]
    /\ meta = [p \in Procs |-> NoMeta]
    /\ result = [p \in Procs |-> NoDepsResult]
    /\ sweep = [p \in Procs |-> NoSweep]
    /\ hist = [p \in Procs |-> NoHist]

\* `let deps = { ... }` on args.dep: the sorted list, or the user error.
SortArgsDep(p) ==
    /\ pc[p] = "deps"
    /\ LET r == BuildDeps(args[p].dep)
       IN  /\ result' = [result EXCEPT ![p] = r]
           /\ deps' = [deps EXCEPT ![p] = r.deps]
    /\ pc' = [pc EXCEPT ![p] = "decide"]
    /\ UNCHANGED <<now, fsVars, runs, faults, active, args, action, pkg_path, meta,
                   sweep, hist>>

NextDeps == \E p \in Procs : SortArgsDep(p)

SpecDeps == InitDeps /\ [][NextDeps]_vars

\* ------------------------------------------------ manifests (toml::Table)

\* A toml::Table is a function from keys to values; a toml::Value is a record:
\* kind "str" with the text str, or kind "tab" with the table tab.  The keys of a
\* manifest are strings, the keys of its sub-tables are texts.
EmptyTable == [k \in {} |-> <<>>]

StrValue(s) == [kind |-> "str", str |-> s, tab |-> EmptyTable]

TableValue(t) == [kind |-> "tab", str |-> <<>>, tab |-> t]

\* BTreeMap::insert
Put(t, k, v) == [x \in DOMAIN t \cup {k} |-> IF x = k THEN v ELSE t[x]]

\* `into_t.extend(from_t)`: the entries of from_t replace those of into_t.
ExtendKeepsOld(into_t, from_t) ==
    [x \in DOMAIN into_t \cup DOMAIN from_t |->
        IF x \in DOMAIN into_t THEN into_t[x] ELSE from_t[x]]

Extend(into_t, from_t) ==
    [x \in DOMAIN into_t \cup DOMAIN from_t |->
        IF x \in DOMAIN from_t THEN from_t[x] ELSE into_t[x]]

\* One turn of the loop `for (k, v) in from_t` of merge_manifest.
MergeEntryBothWays(into_t, k, v) ==
    IF k \in DOMAIN into_t /\ (into_t[k].kind = "tab") # (v.kind = "tab")
    THEN [ok |-> FALSE, table |-> into_t]
    ELSE IF v.kind = "tab" /\ k \in DOMAIN into_t
         THEN [ok |-> TRUE,
               table |-> Put(into_t, k, TableValue(Extend(into_t[k].tab, v.tab)))]
         ELSE [ok |-> TRUE, table |-> Put(into_t, k, v)]

MergeEntry(into_t, k, v) ==
    IF v.kind = "tab"
    THEN IF k \notin DOMAIN into_t
         THEN [ok |-> TRUE, table |-> Put(into_t, k, v)]
         ELSE IF into_t[k].kind = "tab"
              THEN [ok |-> TRUE,
                    table |-> Put(into_t, k, TableValue(Extend(into_t[k].tab, v.tab)))]
              ELSE [ok |-> FALSE, table |-> into_t]
    ELSE [ok |-> TRUE, table |-> Put(into_t, k, v)]

\* The loop `for (k, v) in from_t`, over the keys of from_t in the order order.
MergeLoopFirstOnly(into_t, from_t, order) ==
    IF order = <<>> THEN [ok |-> TRUE, table |-> into_t]
    ELSE LET r == MergeEntry(into_t, Head(order), from_t[Head(order)])
         IN  IF r.ok THEN r ELSE [ok |-> FALSE, table |-> EmptyTable]

RECURSIVE MergeLoop(_, _, _)
MergeLoop(into_t, from_t, order) ==
    IF order = <<>> THEN [ok |-> TRUE, table |-> into_t]
    ELSE LET r == MergeEntry(into_t, Head(order), from_t[Head(order)])
         IN  IF r.ok THEN MergeLoop(r.table, from_t, Tail(order))
             ELSE [ok |-> FALSE, table |-> EmptyTable]

\* The keys of manifests, in the order of a BTreeMap<String, _>.
ManifestKeyOrder == <<"bin", "dependencies", "package">>

KeysInOrder(t) == SelectSeq(ManifestKeyOrder, LAMBDA k : k \in DOMAIN t)

\* merge_manifest: the second manifest merged into the first, or the error
\* "cannot merge manifests: cannot merge table and non-table values".
merge_manifest(into_t, from_t) == MergeLoop(into_t, from_t, KeysInOrder(from_t))

\* The values of the entries of a sub-table: a text, or a table of texts.
EntryValues ==
    { StrValue(<<"1">>),
      TableValue([k \in {<<"n">>} |-> <<"1">>]),
      TableValue([k \in {<<"m">>} |-> <<"2">>]) }

\* The functions from a subset of keys to values.
PartialFunctions(keys, values) == UNION {[d -> values] : d \in SUBSET keys}

\* The values of the keys of a manifest: texts, and tables over the keys a and b.
TopValues ==
    {StrValue(<<"x">>), StrValue(<<"y">>)}
    \cup {TableValue(t) : t \in PartialFunctions({<<"a">>, <<"b">>}, EntryValues)}

Manifests == PartialFunctions({"package", "dependencies"}, TopValues)

NoMerge(b, o) == [into_t |-> b, from_t |-> o, ok |-> FALSE, table |-> EmptyTable]

\* split_input is about to merge the manifest from_t into the manifest into_t.
InitMerge ==
    /\ now = MAX_CACHE_AGE_MS
    /\ cacheExists = TRUE
    /\ slot = NoSlots
    /\ rootFiles = {}
    /\ runs = 1
    /\ faults = 0
    /\ active = {1}
    /\ args = [p \in Procs |-> IF p = 1 THEN [NoArgs EXCEPT !.script = TRUE] ELSE NoArgs]
    /\ deps = [p \in Procs |-> <<>>]
    /\ pc = [p \in Procs |-> IF p = 1 THEN "merge" ELSE "idle"]
    /\ action = [p \in Procs |-> "Compile"]
    /\ pkg_path = [p \in Procs |-> NoId]
    /\ meta = [p \in Procs |-> NoMeta]
    /\ \E b \in Manifests, o \in Manifests :
        result = [p \in Procs |-> IF p = 1 THEN NoMerge(b, o)
                                  ELSE NoMerge(EmptyTable, EmptyTable)]
    /\ sweep = [p \in Procs |-> NoSweep]
    /\ hist = [p \in Procs |-> NoHist]

\* `try!(merge_manifest(into_t, from_t))`
Merge(p) ==
    /\ pc[p] = "merge"
    /\ LET r == merge_manifest(result[p].into_t, result[p].from_t)
       IN  result' = [result EXCEPT ![p].ok = r.ok, ![p].table = r.table]
    /\ pc' = [pc EXCEPT ![p] = "merged"]
    /\ UNCHANGED <<now, fsVars, runs, faults, active, runVars, sweep, hist>>

NextMerge == \E p \in Procs : Merge(p)

SpecMerge == InitMerge /\ [][NextMerge]_vars

\* --------------------------------------- split_input, the final manifest

\* default_manifest: consts::DEFAULT_MANIFEST with the safe name for %n, parsed:
\* the table package with its name.
default_manifest(input) ==
    [k \in {"package"} |->
        TableValue([e \in {<<"n", "a", "m", "e">>} |-> StrValue(<<safe_name(input)>>)])]

\* What the toml parser reads of `name=version`, quoted unless the version
\* begins with "{": a text, or an inline table (the empty one, for "{}").
DepValue(ver) ==
    IF StartsWith(ver, <<"{">>) THEN TableValue(EmptyTable) ELSE StrValue(ver)

\* deps_manifest: the table dependencies with an entry for every dependency.
deps_manifest_none(dep_list) ==
    [k \in {"dependencies"} |-> TableValue(EmptyTable)]

deps_manifest(dep_list) ==
    [k \in {"dependencies"} |->
        TableValue([n \in {dep_list[i][1] : i \in 1..Len(dep_list)} |->
                       DepValue((CHOOSE d \in {dep_list[i] : i \in 1..Len(dep_list)} : d[1] = n)[2])])]

\* split_input from `toml::Parser::new(part_mani).parse()` on: part is what the
\* parser makes of the embedded manifest, None or a table.  The defaults, the
\* embedded manifest and the dependencies are merged in this order.
final_manifest(input, part, dep_list) ==
    IF part = None
    THEN [ok |-> FALSE, err |-> "could not parse embedded manifest", mani |-> EmptyTable]
    ELSE LET mani == merge_manifest(default_manifest(input), part[1])
         IN  IF ~mani.ok
             THEN [ok |-> FALSE, err |-> "cannot merge manifests", mani |-> EmptyTable]
             ELSE LET merged == merge_manifest(mani.table, deps_manifest(dep_list))
                  IN  IF ~merged.ok
                      THEN [ok |-> FALSE, err |-> "cannot merge manifests",
                            mani |-> EmptyTable]
                      ELSE [ok |-> TRUE, err |-> "", mani |-> merged.table]

\* The embedded manifests: package as a table or a text, dependencies as a table
\* over a and b or a text.
PartManifests ==
    PartialFunctions({"package"},
        {StrValue(<<"x">>), TableValue([e \in {<<"n", "a", "m", "e">>} |-> StrValue(<<"t">>)])})
    \X PartialFunctions({"dependencies"},
        {StrValue(<<"x">>)}
        \cup {TableValue(t) :
                t \in PartialFunctions({<<"a">>, <<"b">>},
                                       {StrValue(<<"1">>), StrValue(<<"2">>), StrValue(<<"*">>)})})

\* The sorted dependency lists of the --dep arguments.
ManifestDeps ==
    {BuildDeps(d).deps :
        d \in {a \o b : a \in {<<>>, << <<"a">> >>, << <<"a", "=", "1">> >>,
                                 << <<"a", "=", "2">> >>, << <<"a", "=", "{", "}">> >>},
                        b \in {<<>>, << <<"b", "=", "1">> >>}}}

NoManifest(part) == [part |-> part, ok |-> FALSE, err |-> "", mani |-> EmptyTable]

\* split_input has split the script and is about to parse the embedded manifest.
InitManifest ==
    /\ now = MAX_CACHE_AGE_MS
    /\ cacheExists = TRUE
    /\ slot = NoSlots
    /\ rootFiles = {}
    /\ runs = 1
    /\ faults = 0
    /\ active = {1}
    /\ args = [p \in Procs |->
                 IF p = 1
                 THEN [NoArgs EXCEPT !.script = TRUE,
                                     !.input = FileInput("s", "/home/zoe/s.rs", "main", 1)]
                 ELSE NoArgs]
    /\ \E d \in ManifestDeps : deps = [p \in Procs |-> IF p = 1 THEN d ELSE <<>>]
    /\ pc = [p \in Procs |-> IF p = 1 THEN "manifest" ELSE "idle"]
    /\ action = [p \in Procs |-> "Compile"]
    /\ pkg_path = [p \in Procs |-> NoId]
    /\ meta = [p \in Procs |-> NoMeta]
    /\ \E part \in {None} \cup {Some(Extend(m[1], m[2])) : m \in PartManifests} :
        result = [p \in Procs |-> IF p = 1 THEN NoManifest(part) ELSE NoManifest(None)]
    /\ sweep = [p \in Procs |-> NoSweep]
    /\ hist = [p \in Procs |-> NoHist]

\* split_input returns the final manifest, or the user error.
FinalManifest(p) ==
    /\ pc[p] = "manifest"
    /\ LET r == final_manifest(args[p].input, result[p].part, deps[p])
       IN  result' = [result EXCEPT ![p].ok = r.ok, ![p].err = r.err, ![p].mani = r.mani]
    /\ pc' = [pc EXCEPT ![p] = "manifested"]
    /\ UNCHANGED <<now, fsVars, runs, faults, active, runVars, sweep, hist>>

NextManifest == \E p \in Procs : FinalManifest(p)

SpecManifest == InitManifest /\ [][NextManifest]_vars

\* ------------------------------------------------ merge_manifest, three manifests

\* The manifests merge_manifest is applied to in SpecAssoc: over three keys, a
\* text or a table under each.
AssocValues ==
    { StrValue(<<"x">>),
      TableValue([k \in {<<"a">>} |-> StrValue(<<"1">>)]),
      TableValue([k \in {<<"b">>} |-> TableValue([n \in {<<"n">>} |-> <<"1">>])]) }

AssocManifests == PartialFunctions({"bin", "dependencies", "package"}, AssocValues)

\* `try!(merge_manifest(..))` on the result of an earlier `try!(merge_manifest(..))`.
MergeInto(r, from_t) == IF r.ok THEN merge_manifest(r.table, from_t) ELSE r

MergeFrom(into_t, r) == IF r.ok THEN merge_manifest(into_t, r.table) ELSE r

NoAssoc(a, b, c) ==
    [a |-> a, b |-> b, c |-> c,
     left |-> [ok |-> FALSE, table |-> EmptyTable],
     right |-> [ok |-> FALSE, table |-> EmptyTable]]

\* Three manifests are about to be merged, in the two groupings.
InitAssoc ==
    /\ now = MAX_CACHE_AGE_MS
    /\ cacheExists = TRUE
    /\ slot = NoSlots
    /\ rootFiles = {}
    /\ runs = 1
    /\ faults = 0
    /\ active = {1}
    /\ args = [p \in Procs |-> IF p = 1 THEN [NoArgs EXCEPT !.script = TRUE] ELSE NoArgs]
    /\ deps = [p \in Procs |-> <<>>]
    /\ pc = [p \in Procs |-> IF p = 1 THEN "merge3" ELSE "idle"]
    /\ action = [p \in Procs |-> "Compile"]
    /\ pkg_path = [p \in Procs |-> NoId]
    /\ meta = [p \in Procs |-> NoMeta]
    /\ \E a \in AssocManifests, b \in AssocManifests, c \in AssocManifests :
        result = [p \in Procs |-> IF p = 1 THEN NoAssoc(a, b, c)
                                  ELSE NoAssoc(EmptyTable, EmptyTable, EmptyTable)]
    /\ sweep = [p \in Procs |-> NoSweep]
    /\ hist = [p \in Procs |-> NoHist]

\* merge_manifest(merge_manifest(a, b), c) and merge_manifest(a, merge_manifest(b, c))
MergeThree(p) ==
    /\ pc[p] = "merge3"
    /\ LET r == result[p]
       IN  result' = [result EXCEPT
                ![p].left = MergeInto(merge_manifest(r.a, r.b), r.c),
                ![p].right = MergeFrom(r.a, merge_manifest(r.b, r.c))]
    /\ pc' = [pc EXCEPT ![p] = "merged3"]
    /\ UNCHANGED <<now, fsVars, runs, faults, active, runVars, sweep, hist>>

NextAssoc == \E p \in Procs : MergeThree(p)

SpecAssoc == InitAssoc /\ [][NextAssoc]_vars

\* ------------------------------------------------- compute_id on any two inputs

\* The texts of expressions: one of them reads like a hashed dependency.
IdTexts == { <<"x">>, <<"1">>, <<"d", "e", "p", "=", "a", "=", "1", ";", "x">> }

IdInputs ==
    {FileInput(n, f, c, m) : n \in {"s", "t"}, f \in {"/home/zoe/s.rs", "/tmp/s.rs"},
                             c \in {"main", "nomain"}, m \in {1, 2}}
    \cup {ExprInput(c) : c \in IdTexts}
    \cup {LoopInput(c, b) : c \in IdTexts, b \in BOOLEAN}

\* The versions of dependencies: one of them reads like the end of a hashed
\* dependency and the start of the next.
IdVersions == { <<"1">>, <<"2">>, <<"1", ";", "d", "e", "p", "=", "b", "=", "2">> }

\* The sorted dependency lists over the names a and b.
IdDeps ==
    LET one(n) == {<<>>} \cup {<< <<n, v>> >> : v \in IdVersions}
    IN  {x \o y : x \in one(<<"a">>), y \in one(<<"b">>)}

NoIds(in1, d1, in2, d2) ==
    [in1 |-> in1, d1 |-> d1, in2 |-> in2, d2 |-> d2,
     id1 |-> NoId, id2 |-> NoId, bytes1 |-> <<>>, bytes2 |-> <<>>]

\* try_main is about to compute the identifier, of either of two inputs.
InitId ==
    /\ now = MAX_CACHE_AGE_MS
    /\ cacheExists = TRUE
    /\ slot = NoSlots
    /\ rootFiles = {}
    /\ runs = 1
    /\ faults = 0
    /\ active = {1}
    /\ args = [p \in Procs |-> IF p = 1 THEN [NoArgs EXCEPT !.script = TRUE] ELSE NoArgs]
    /\ deps = [p \in Procs |-> <<>>]
    /\ pc = [p \in Procs |-> IF p = 1 THEN "id" ELSE "idle"]
    /\ action = [p \in Procs |-> "Compile"]
    /\ pkg_path = [p \in Procs |-> NoId]
    /\ meta = [p \in Procs |-> NoMeta]
    /\ \E in1 \in IdInputs, in2 \in IdInputs, d1 \in IdDeps, d2 \in IdDeps :
        result = [p \in Procs |-> IF p = 1 THEN NoIds(in1, d1, in2, d2)
                                  ELSE NoIds(NoInput, <<>>, NoInput, <<>>)]
    /\ sweep = [p \in Procs |-> NoSweep]
    /\ hist = [p \in Procs |-> NoHist]

\* `input.compute_id(deps.iter()..)`, on each of the two inputs.
ComputeIds(p) ==
    /\ pc[p] = "id"
    /\ LET r == result[p]
       IN  result' = [result EXCEPT
                ![p].id1 = compute_id(r.in1, r.d1),
                ![p].id2 = compute_id(r.in2, r.d2),
                ![p].bytes1 = HashedBytes(r.in1, r.d1),
                ![p].bytes2 = HashedBytes(r.in2, r.d2)]
    /\ pc' = [pc EXCEPT ![p] = "hashed"]
    /\ UNCHANGED <<now, fsVars, runs, faults, active, runVars, sweep, hist>>

NextId == \E p \in Procs : ComputeIds(p)

SpecId == InitId /\ [][NextId]_vars

\* ------------------------------------------------- two invocations at a time

\* Two processes run the program, side by side, on a cache that exists and is
\* empty: two invocations in all, no file system failure but what the one
\* invocation does to the other, and time to pass between them.
InitConc ==
    /\ now = MAX_CACHE_AGE_MS
    /\ cacheExists = TRUE
    /\ slot = NoSlots
    /\ rootFiles = {StrayFile}
    /\ runs = MaxRuns - Cardinality(Procs)
    /\ faults = MaxFaults
    /\ active = Procs
    /\ pc = [p \in Procs |-> "idle"]
    /\ args = [p \in Procs |-> NoArgs]
    /\ deps = [p \in Procs |-> <<>>]
    /\ action = [p \in Procs |-> "Compile"]
    /\ pkg_path = [p \in Procs |-> NoId]
    /\ meta = [p \in Procs |-> NoMeta]
    /\ result = [p \in Procs |-> "none"]
    /\ sweep = [p \in Procs |-> NoSweep]
    /\ hist = [p \in Procs |-> NoHist]

SpecConc == InitConc /\ [][Next]_vars

\* ------------------------------------------------------------------ claims

\* What the stored metadata of the slot of invocation p is, read field by field.
StoredLoads(p) ==
    pkg_path[p] \in DOMAIN slot /\ slot[pkg_path[p]].meta.st \in {"ok"}

Stored(p) == slot[pkg_path[p]].meta.val

\* The fields of the current metadata, from the input and the flags.
CurPath(p) == IF args[p].input.kind = "File" THEN Some(args[p].input.path) ELSE None

CurModified(p) == IF args[p].input.kind = "File" THEN Some(args[p].input.mtime) ELSE None

ArtifactIsFile(p) ==
    /\ pkg_path[p] \in DOMAIN slot
    /\ (IF args[p].debug THEN "debug" ELSE "release") \in slot[pkg_path[p]].exe

FieldsEqual(p) ==
    <<Stored(p).path = CurPath(p), Stored(p).modified = CurModified(p),
      Stored(p).debug = args[p].debug, Stored(p).deps = deps[p]>>

\* C1: the decision is Execute exactly when the stored metadata loads, equals the
\* current metadata in path, modified, debug and deps, and the artifact of the
\* profile is a file; otherwise it is Compile.
C1_ExecuteIffFresh ==
    \A p \in Procs :
        pc[p] = "decided" =>
            /\ action[p] \in {"Compile", "Execute"}
            /\ action[p] = "Execute" <=>
                /\ StoredLoads(p)
                /\ FieldsEqual(p) = <<TRUE, TRUE, TRUE, TRUE>>
                /\ ArtifactIsFile(p)

\* The stored metadata loads, the artifact is there, the modified timestamp alone
\* differs, and the decision was Compile.
C1_Witness ==
    \E p \in Procs :
        /\ pc[p] = "decided"
        /\ StoredLoads(p)
        /\ ArtifactIsFile(p)
        /\ FieldsEqual(p) = <<TRUE, FALSE, TRUE, TRUE>>
        /\ action[p] = "Compile"

\* C2: a step that writes the metadata file of a slot is taken by an invocation
\* that compiles that slot and whose external build returned success.
C2_MetaWrittenAfterBuild ==
    [][\A id \in DOMAIN slot' :
          (/\ slot'[id].meta.st # "none"
           /\ id \in DOMAIN slot => slot[id].meta # slot'[id].meta)
          => \E p \in Procs :
                /\ pc[p] = "write_meta"
                /\ pkg_path[p] = id
                /\ hist[p].built = "ok"]_vars

\* The build succeeded and the metadata file of the slot holds the run's metadata.
C2_Witness ==
    \E p \in Procs :
        /\ pc[p] = "defer"
        /\ hist[p].built = "ok"
        /\ hist[p].wrote
        /\ StoredLoads(p)
        /\ Stored(p) = meta[p]

\* The next invocation for the slot id decides Compile, whatever its input.
NextRunCompiles(id) ==
    \A i \in RunInputs \cup DecideInputs, d \in DecideDeps, dbg \in BOOLEAN :
        compute_id(i, d) = id => cache_action_for(slot, i, dbg, d).action = "Compile"

C4_LoadFailureCompiles ==
    \A p \in Procs :
        /\ result[p] # "panic"
        /\ pc[p] = "decided" /\ ~StoredLoads(p) => action[p] = "Compile"

DirExams(p) == {e \in hist[p].exams : ~e.isFile}

\* C6, as stated: a slot whose metadata file's timestamp equals the cutoff is kept.
C6_AtCutoffRetained ==
    \A p \in Procs : \A e \in DirExams(p) :
        e.opened /\ e.mtime = e.cutoff => ~e.attempt

\* C6, amended: a slot whose metadata file opens is removed exactly when the
\* file's timestamp is at or before the cutoff; at the cutoff it is removed, only
\* a strictly newer timestamp keeps it.
C6_AtCutoffRemoved ==
    \A p \in Procs : \A e \in DirExams(p) :
        /\ e.opened => (e.attempt <=> e.mtime <= e.cutoff)
        /\ e.opened /\ e.mtime = e.cutoff /\ ~e.failed /\ pc[p] \in {"sweep", "swept"}
             => e.child \notin DOMAIN slot

\* An age sweep met a slot with the timestamp at the cutoff and removed it.
C6_Witness ==
    \E p \in Procs : \E e \in DirExams(p) :
        /\ e.ctx = "age"
        /\ e.opened
        /\ e.mtime = e.cutoff
        /\ e.attempt
        /\ ~e.failed
        /\ e.child \notin DOMAIN slot

StaleOrUnreadable(c, cutoff) ==
    slot[c].meta.st = "none" \/ slot[c].meta.mtime <= cutoff

\* C8: a sweep in which a deletion failed has looked at every child, has removed
\* every stale or unreadable slot but those whose own deletion failed, and
\* returns Ok.
C8_SweepSurvivesFailure ==
    \A p \in Procs :
        (pc[p] = "swept" /\ \E e \in DirExams(p) : e.failed)
        => /\ sweep[p].res = "ok"
           /\ \A c \in sweep[p].snap : \E e \in hist[p].exams : e.child = c
           /\ \A c \in DOMAIN slot \cap sweep[p].snap :
                \/ \E e \in DirExams(p) : e.child = c /\ e.failed
                \/ ~StaleOrUnreadable(c, sweep[p].cutoff)

\* A sweep in which one deletion failed removed another slot.
C8_Witness ==
    \E p \in Procs :
        /\ pc[p] = "swept"
        /\ sweep[p].res = "ok"
        /\ \E e, f \in DirExams(p) :
            /\ e.failed
            /\ e.child \in DOMAIN slot
            /\ f.attempt
            /\ ~f.failed
            /\ f.child \notin DOMAIN slot

\* C9: an invocation that reached its main action without a full clear has run
\* the age sweep once when it ends.
C9_AgeSweepAlwaysRuns ==
    \A p \in Procs :
        pc[p] = "exit" /\ hist[p].decided /\ hist[p].full = 0 => hist[p].age = 1

\* C10: an invocation that ran the full clear runs no age sweep, and no invocation
\* runs more than one sweep.
C10_OneSweep ==
    \A p \in Procs :
        /\ hist[p].full + hist[p].age <= 1
        /\ args[p].clear_cache /\ pc[p] \notin {"parsed"} => hist[p].full = 1 /\ hist[p].age = 0

\* An invocation with --clear-cache compiled its script and ended without an age
\* sweep.
C10_Witness ==
    \E p \in Procs :
        /\ pc[p] = "exit"
        /\ hist[p].full = 1
        /\ hist[p].wrote
        /\ result[p] = "ok"
        /\ hist[p].age = 0

\* C11: an invocation with --clear-cache and a script that reaches the decision
\* has run the full clear, and its decision is Compile.
C11_ClearCacheCompiles ==
    \A p \in Procs :
        pc[p] = "decided" /\ args[p].clear_cache =>
            hist[p].full = 1 /\ action[p] = "Compile"

\* What split_input was given and what it returned, for the invocation p of
\* SpecSplit.
Content(p) == args[p].input.content

Scanned(p) == ScannedLines(Content(p))

IsBoundaryLine(line) == IsDashDivider(line) \/ IsMarkerLine(line)

\* C15: split_input of a File input fails for want of source exactly when no
\* scanned line is a divider line or a code-marker line.
C15_NoSourceIffNoBoundary ==
    \A p \in Procs :
        pc[p] = "split" =>
            (~result[p].ok <=>
                \A i \in 1..Len(Scanned(p)) : ~IsBoundaryLine(Scanned(p)[i].text))

\* A script that is a hashbang line alone has failed to split.
C15_Witness ==
    \E p \in Procs :
        /\ pc[p] = "split"
        /\ Content(p) = <<"#", "!", "x", NL>>
        /\ ~result[p].ok

\* The first scanned line that is a divider line or a code-marker line.
FirstBoundary(p) ==
    Scanned(p)[CHOOSE i \in 1..Len(Scanned(p)) :
                  /\ IsBoundaryLine(Scanned(p)[i].text)
                  /\ \A j \in 1..(i - 1) : ~IsBoundaryLine(Scanned(p)[j].text)]

\* The content from the offset from on.
ContentFrom(p, from) == SubSeq(Content(p), from + 1, Len(Content(p)))

\* C12: the fragment ends at the start of the first scanned line that is a divider
\* or a code-marker line, and the source begins after that line (divider) or at
\* its start (marker), whatever lines follow it.
C12_FirstBoundaryWins ==
    \A p \in Procs :
        pc[p] = "split" /\ result[p].ok =>
            LET l == FirstBoundary(p)
            IN  /\ Len(result[p].manifest) = l.start
                /\ result[p].source =
                     ContentFrom(p, IF IsDashDivider(l.text) THEN l.start + Len(l.text)
                                    ELSE l.start)

\* The end of the hashbang line and its line terminator, when the script begins
\* with a hashbang line and has more lines.
BeginsWithHashbang(p) ==
    /\ Len(lines_any(Content(p))) > 1
    /\ IsHashbang(lines_any(Content(p))[1].text)

HashbangEnd(p) == lines_any(Content(p))[2].start

ScannedContent(p) ==
    IF lines_any(Content(p)) # <<>> /\ IsHashbang(lines_any(Content(p))[1].text)
    THEN (IF Len(lines_any(Content(p))) > 1 THEN ContentFrom(p, HashbangEnd(p)) ELSE <<>>)
    ELSE Content(p)

\* The fragment and the source are cut at the scanned line l: for a divider before
\* and after the characters of l, for a marker line both at the start of l.
CutAt(p, l) ==
    /\ result[p].manifest = SubSeq(Content(p), 1, l.start)
    /\ IF IsDashDivider(l.text)
       THEN result[p].source = ContentFrom(p, l.start + Len(l.text))
       ELSE IsMarkerLine(l.text) /\ result[p].source = ContentFrom(p, l.start)

CutAtMarker(p) ==
    \E i \in 1..Len(Scanned(p)) :
        CutAt(p, Scanned(p)[i]) /\ ~IsDashDivider(Scanned(p)[i].text)

SpecName(dep) == DepName(DepNormalise(dep))

SpecVersion(dep) == DepVersion(DepNormalise(dep))

\* Some spec has no name, some spec has no version, or two specs of one name
\* differ in their version text.
BadSpecs(d) ==
    \/ \E i \in 1..Len(d) : SpecName(d[i]) = <<>> \/ SpecVersion(d[i]) = <<>>
    \/ \E i, j \in 1..Len(d) :
         SpecName(d[i]) = SpecName(d[j]) /\ SpecVersion(d[i]) # SpecVersion(d[j])

\* The sequences with the elements of d in any order.
Reorderings(d) ==
    {[i \in 1..Len(d) |-> d[f[i]]] :
        f \in {g \in [1..Len(d) -> 1..Len(d)] : \A i, j \in 1..Len(d) : g[i] = g[j] => i = j}}

\* C17: the dependency block fails exactly on BadSpecs; otherwise its list has one
\* entry per distinct name, with the version asked for, is sorted by name, and is
\* the same for every order of the specs.
C17_DepsFailIffBad ==
    \A p \in Procs :
        pc[p] = "decide" =>
            LET d == args[p].dep
                r == result[p]
            IN  /\ r.ok <=> ~BadSpecs(d)
                /\ r.ok =>
                    /\ {e[1] : e \in {r.deps[i] : i \in 1..Len(r.deps)}}
                         = {SpecName(d[i]) : i \in 1..Len(d)}
                    /\ Len(r.deps) = Cardinality({SpecName(d[i]) : i \in 1..Len(d)})
                    /\ \A i \in 1..Len(r.deps) :
                         \E j \in 1..Len(d) :
                            r.deps[i] = <<SpecName(d[j]), SpecVersion(d[j])>>
                    /\ \A i \in 1..(Len(r.deps) - 1) : StrLess(r.deps[i][1], r.deps[i + 1][1])
                /\ \A q \in Reorderings(d) :
                    /\ BuildDeps(q).ok = r.ok
                    /\ r.ok => BuildDeps(q).deps = r.deps

\* The specs b, a=1, a=1 gave the list a=1, b=*; and a, a=1 failed as a conflict.
C17_Witness ==
    \E p \in Procs :
        /\ pc[p] = "decide"
        /\ args[p].dep = << <<"b">>, <<"a", "=", "1">>, <<"a", "=", "1">> >>
        /\ result[p].ok
        /\ result[p].deps = << <<(<<"a">>), (<<"1">>)>>, <<(<<"b">>), (<<"*">>)>> >>
        /\ ~BuildDeps(<< <<"a">>, <<"a", "=", "1">> >>).ok

\* Some key holds a table in the manifest s and a value that is no table in t.
TableAgainstValue(s, t) ==
    \E k \in DOMAIN s \cap DOMAIN t : s[k].kind = "tab" /\ t[k].kind # "tab"

\* C19, as stated: merge_manifest fails whenever a key holds a table on one side
\* and a value that is no table on the other, whichever side the table is on.
C19_TableValueConflictFails ==
    \A p \in Procs :
        (/\ pc[p] = "merged"
         /\ \/ TableAgainstValue(result[p].into_t, result[p].from_t)
            \/ TableAgainstValue(result[p].from_t, result[p].into_t))
        => ~result[p].ok

\* C19, amended: merge_manifest fails exactly when a key holds a table in the
\* second manifest and a value that is no table in the first; a value of the
\* second manifest that is no table replaces a table of the first.
C19_TableIntoValueFails ==
    \A p \in Procs :
        pc[p] = "merged" =>
            /\ ~result[p].ok <=> TableAgainstValue(result[p].from_t, result[p].into_t)
            /\ result[p].ok =>
                 \A k \in DOMAIN result[p].from_t :
                    result[p].from_t[k].kind # "tab" =>
                        result[p].table[k] = result[p].from_t[k]

\* The first manifest has the table package, the second the text package: the
\* merge succeeded and package is the text.
C19_Witness ==
    \E p \in Procs :
        /\ pc[p] = "merged"
        /\ result[p].ok
        /\ "package" \in DOMAIN result[p].into_t \cap DOMAIN result[p].from_t
        /\ result[p].into_t["package"].kind = "tab"
        /\ result[p].from_t["package"] = StrValue(<<"x">>)
        /\ result[p].table["package"] = StrValue(<<"x">>)

\* C20: when merge_manifest succeeds, the result has the keys of both manifests;
\* a key of the first manifest alone keeps its value, a key of the second alone
\* takes its value, a key with a table on both sides has the entries of both
\* tables, those of the second where both have the entry (whole values, nothing
\* below merged), and any other key has the value of the second manifest.
C20_MergeResult ==
    \A p \in Procs :
        pc[p] = "merged" /\ result[p].ok =>
            LET b == result[p].into_t
                o == result[p].from_t
                m == result[p].table
            IN  /\ DOMAIN m = DOMAIN b \cup DOMAIN o
                /\ \A k \in DOMAIN b \ DOMAIN o : m[k] = b[k]
                /\ \A k \in DOMAIN o \ DOMAIN b : m[k] = o[k]
                /\ \A k \in DOMAIN b \cap DOMAIN o :
                     IF b[k].kind = "tab" /\ o[k].kind = "tab"
                     THEN /\ m[k].kind = "tab"
                          /\ DOMAIN m[k].tab = DOMAIN b[k].tab \cup DOMAIN o[k].tab
                          /\ \A e \in DOMAIN o[k].tab : m[k].tab[e] = o[k].tab[e]
                          /\ \A e \in DOMAIN b[k].tab \ DOMAIN o[k].tab :
                               m[k].tab[e] = b[k].tab[e]
                     ELSE o[k].kind # "tab" /\ m[k] = o[k]

\* Both manifests have the table dependencies with the entry a, a table of texts
\* on either side: the merged entry is the table of the second manifest.
C20_Witness ==
    \E p \in Procs :
        /\ pc[p] = "merged"
        /\ result[p].ok
        /\ "dependencies" \in DOMAIN result[p].into_t \cap DOMAIN result[p].from_t
        /\ result[p].into_t["dependencies"].kind = "tab"
        /\ result[p].from_t["dependencies"].kind = "tab"
        /\ <<"a">> \in DOMAIN result[p].into_t["dependencies"].tab
        /\ <<"a">> \in DOMAIN result[p].from_t["dependencies"].tab
        /\ result[p].into_t["dependencies"].tab[<<"a">>] =
              TableValue([k \in {<<"n">>} |-> <<"1">>])
        /\ result[p].from_t["dependencies"].tab[<<"a">>] =
              TableValue([k \in {<<"m">>} |-> <<"2">>])
        /\ result[p].table["dependencies"].tab[<<"a">>] =
              TableValue([k \in {<<"m">>} |-> <<"2">>])

\* The embedded manifest of invocation p of SpecManifest parses and has the table
\* dependencies.
PartDeps(p) == result[p].part[1]["dependencies"].tab

HasPartDeps(p) ==
    /\ result[p].part # None
    /\ "dependencies" \in DOMAIN result[p].part[1]
    /\ result[p].part[1]["dependencies"].kind = "tab"

\* The embedded manifest and a --dep argument name the same package with
\* different versions.
CrossConflict(p) ==
    /\ HasPartDeps(p)
    /\ \E i \in 1..Len(deps[p]) :
        /\ deps[p][i][1] \in DOMAIN PartDeps(p)
        /\ PartDeps(p)[deps[p][i][1]] # DepValue(deps[p][i][2])

\* C18, as stated: when the embedded manifest and a --dep argument name the same
\* package with different versions, the final manifest is not built.
C18_CrossConflictFails ==
    \A p \in Procs : pc[p] = "manifested" /\ CrossConflict(p) => ~result[p].ok

\* C18, amended: such a conflict never makes the final manifest fail; whenever the
\* final manifest is built, its dependencies are those of the embedded manifest
\* with the entry of every --dep argument in their place or added.
C18_ExplicitDepWins ==
    \A p \in Procs :
        pc[p] = "manifested" =>
            /\ (/\ HasPartDeps(p)
                /\ "package" \in DOMAIN result[p].part[1]
                     => result[p].part[1]["package"].kind = "tab")
               => result[p].ok
            /\ result[p].ok =>
                LET final == result[p].mani["dependencies"].tab
                IN  /\ \A i \in 1..Len(deps[p]) :
                         /\ deps[p][i][1] \in DOMAIN final
                         /\ final[deps[p][i][1]] = DepValue(deps[p][i][2])
                    /\ HasPartDeps(p) =>
                         \A n \in DOMAIN PartDeps(p) :
                            (\A i \in 1..Len(deps[p]) : deps[p][i][1] # n)
                                => n \in DOMAIN final /\ final[n] = PartDeps(p)[n]

\* The embedded manifest asks for a = "1" and --dep for a=2: the final manifest is
\* built with a = "2".
C18_Witness ==
    \E p \in Procs :
        /\ pc[p] = "manifested"
        /\ CrossConflict(p)
        /\ <<"a">> \in DOMAIN PartDeps(p)
        /\ PartDeps(p)[<<"a">>] = StrValue(<<"1">>)
        /\ deps[p] = << <<(<<"a">>), (<<"2">>)>> >>
        /\ result[p].ok
        /\ result[p].mani["dependencies"].tab[<<"a">>] = StrValue(<<"2">>)

\* The steps of try_main from reading the input up to split_input in compile.
BeforeMkdir == {"input", "deps", "decide", "decided", "compile"}

\* C16: an invocation returns a user error only from reading the input, from the
\* dependency block or from split_input, before create_dir_all and before any
\* sweep by age; and no step up to there changes the cache: no slot directory is
\* made, no file of a slot is changed.
C16_UserErrorLeavesNoState ==
    [][\A p \in Procs :
          /\ pc[p] \in BeforeMkdir => UNCHANGED fsVars
          /\ (pc[p] # "exit" /\ pc'[p] = "exit" /\ result'[p] = "human")
             => /\ pc[p] \in {"input", "deps", "compile"}
                /\ ~hist[p].made
                /\ hist[p].built = "no"
                /\ ~hist[p].wrote
                /\ hist[p].rollback = "no"
                /\ hist[p].age = 0]_vars

\* A forced rebuild of a script whose slot holds a valid build ended in the user
\* error of split_input, and the slot is as it was.
C16_Witness ==
    \E p \in Procs :
        /\ pc[p] = "exit"
        /\ result[p] = "human"
        /\ hist[p].compiled
        /\ hist[p].hadMeta
        /\ ~hist[p].made
        /\ StoredLoads(p)
        /\ "release" \in slot[pkg_path[p]].exe \/ "debug" \in slot[pkg_path[p]].exe

\* The sequences that hold every element of the set S once.
Orderings(S) ==
    {q \in [1..Cardinality(S) -> S] : \A i, j \in 1..Cardinality(S) : q[i] = q[j] => i = j}

PairwiseDisjoint(a, b, c) ==
    /\ DOMAIN a \cap DOMAIN b = {}
    /\ DOMAIN a \cap DOMAIN c = {}
    /\ DOMAIN b \cap DOMAIN c = {}

\* C21: for three manifests without a common key the two groupings of the merge
\* give the same manifest, the three together; and whatever the manifests, the
\* result of a merge, error or manifest, is the same for every order in which the
\* entries of the second manifest are visited.
C21_MergeAssociative ==
    \A p \in Procs :
        pc[p] = "merged3" =>
            LET r == result[p]
            IN  /\ PairwiseDisjoint(r.a, r.b, r.c) =>
                    /\ r.left.ok /\ r.right.ok
                    /\ r.left.table = r.right.table
                    /\ r.left.table = Extend(Extend(r.a, r.b), r.c)
                /\ \A xy \in {<<r.a, r.b>>, <<r.b, r.c>>, <<r.a, r.c>>} :
                     \A q \in Orderings(DOMAIN xy[2]) :
                        MergeLoop(xy[1], xy[2], q) = merge_manifest(xy[1], xy[2])

\* Three manifests with one key each, a different one, were merged to the same
\* manifest of three keys in both groupings.
C21_Witness ==
    \E p \in Procs :
        /\ pc[p] = "merged3"
        /\ PairwiseDisjoint(result[p].a, result[p].b, result[p].c)
        /\ DOMAIN result[p].a # {} /\ DOMAIN result[p].b # {} /\ DOMAIN result[p].c # {}
        /\ result[p].left.ok
        /\ result[p].left = result[p].right
        /\ DOMAIN result[p].left.table = {"bin", "dependencies", "package"}

\* C22: compute_id gives equal identifiers for equal inputs and dependencies, and
\* two File inputs of the same name and path get the same identifier, whatever
\* their contents, modification times and dependencies.
C22_FileIdByNameAndPath ==
    \A p \in Procs :
        pc[p] = "hashed" =>
            LET r == result[p]
            IN  /\ (r.in1 = r.in2 /\ r.d1 = r.d2) => r.id1 = r.id2
                /\ ( /\ r.in1.kind = "File" /\ r.in2.kind = "File"
                     /\ r.in1.name = r.in2.name
                     /\ r.in1.path = r.in2.path ) => r.id1 = r.id2

\* Two files of one name and path, different in content, modification time and
\* dependencies, were given one identifier.
C22_Witness ==
    \E p \in Procs :
        /\ pc[p] = "hashed"
        /\ result[p].in1.kind = "File" /\ result[p].in2.kind = "File"
        /\ result[p].in1.name = result[p].in2.name
        /\ result[p].in1.path = result[p].in2.path
        /\ result[p].in1.content # result[p].in2.content
        /\ result[p].in1.mtime # result[p].in2.mtime
        /\ result[p].d1 # result[p].d2
        /\ result[p].id1 = result[p].id2

\* The two dependency lists name the same packages and differ in the version of
\* exactly one of them.
OneVersionChanged(d1, d2) ==
    /\ Len(d1) = Len(d2)
    /\ \E i \in 1..Len(d1) :
        /\ d1[i][1] = d2[i][1]
        /\ d1[i][2] # d2[i][2]
        /\ \A j \in 1..Len(d1) : j # i => d1[j] = d2[j]

\* C23: for an expression or a loop closure, with the text and the count flag
\* fixed, changing the version of one dependency changes the bytes that are
\* hashed, and so the identifier.
C23_VersionChangesBytes ==
    \A p \in Procs :
        pc[p] = "hashed" =>
            LET r == result[p]
            IN  ( /\ r.in1.kind \in {"Expr", "Loop"}
                  /\ r.in1 = r.in2
                  /\ OneVersionChanged(r.d1, r.d2) ) =>
                        /\ r.bytes1 # r.bytes2
                        /\ r.id1 # r.id2

\* A loop closure was hashed with two dependencies, twice, the version of the
\* first one changed, and the bytes differ.
C23_Witness ==
    \E p \in Procs :
        /\ pc[p] = "hashed"
        /\ result[p].in1.kind = "Loop"
        /\ result[p].in1 = result[p].in2
        /\ Len(result[p].d1) = 2
        /\ OneVersionChanged(result[p].d1, result[p].d2)
        /\ result[p].d1[1] # result[p].d2[1]
        /\ result[p].bytes1 # result[p].bytes2

\* The scan of the script of p ended on a code-marker line, not on a divider.
SplitAtMarker(p) ==
    LET hit == ScanLines(Scanned(p), NoHit)
    IN  hit.manifest_end # None /\ hit.manifest_end = hit.source_start

\* C24, as stated: splitting the source that a split returned, as the content of
\* a fresh script file, returns that source again.
C24_ResplitSameSource ==
    \A p \in Procs :
        pc[p] = "resplit" =>
            result[p].ok /\ result[p].source = result[p].first.source

\* C24, amended: splitting the source that a split returned gives an empty
\* fragment and that source again exactly when the first split was made at a
\* code-marker line; the source after a divider begins at the end of the divider
\* line, and splitting it again fails or returns another source.
C24_ResplitSameIffMarker ==
    \A p \in Procs :
        pc[p] = "resplit" =>
            IF SplitAtMarker(p)
            THEN /\ result[p].ok
                 /\ result[p].manifest = <<>>
                 /\ result[p].source = result[p].first.source
            ELSE ~(result[p].ok /\ result[p].source = result[p].first.source)

\* A fragment line and two marker lines were split at the second marker line, and
\* that source split again.
C24_Witness ==
    \E p \in Procs :
        /\ pc[p] = "resplit"
        /\ Content(p) = <<"a", NL, "f", "n", " ", NL, " ", "/", "/", NL>>
        /\ SplitAtMarker(p)
        /\ result[p].first.source = <<" ", "/", "/", NL>>
        /\ result[p].ok
        /\ result[p].source = <<" ", "/", "/", NL>>

\* C25: no sweep, by age or full, tries to delete a child directory whose metadata
\* file opens with a timestamp after the cutoff, and none tries to delete a child
\* that is a file, which stays in the cache root as it was.
C25_SweepDeletesOnlyStaleOrUnreadable ==
    \A p \in Procs : \A e \in hist[p].exams :
        /\ (~e.isFile /\ e.opened /\ e.mtime > e.cutoff) => ~e.attempt
        /\ e.isFile => (~e.attempt /\ e.child \in rootFiles)
        /\ e.attempt => (~e.isFile /\ (~e.opened \/ e.mtime <= e.cutoff))

\* One sweep by age has passed over the file in the cache root, has kept a slot
\* whose metadata is newer than the cutoff, and the slot is there.
C25_Witness ==
    \E p \in Procs :
        /\ pc[p] = "swept"
        /\ sweep[p].ctx = "age"
        /\ \E e \in hist[p].exams :
            /\ e.ctx = "age" /\ e.isFile /\ ~e.attempt /\ e.child \in rootFiles
        /\ \E e \in hist[p].exams :
            /\ e.ctx = "age" /\ ~e.isFile /\ e.opened /\ e.mtime > e.cutoff
            /\ ~e.attempt
            /\ e.child \in DOMAIN slot

\* C26: whenever cache_action_for returns Execute, the slot holds the metadata of
\* the input, and the executable the run will start is the product of a build of
\* the script for that same metadata, the build that wrote the metadata.
C26_ExecuteRunsBuildOfInput ==
    \A p \in Procs :
        pc[p] = "decided" /\ action[p] = "Execute" =>
            /\ pkg_path[p] \in DOMAIN slot
            /\ slot[pkg_path[p]].meta.st = "ok"
            /\ slot[pkg_path[p]].meta.val = meta[p]
            /\ slot[pkg_path[p]].prog[Profile(meta[p])] = Built(meta[p], FALSE)

\* C27: the steps of an invocation that decided Execute and does not compile, from
\* the decision to the return of try_main, leave every slot as it is: its
\* metadata, the timestamp of the metadata file and its executables.
C27_ExecuteLeavesSlot ==
    [][\A p \in Procs :
          ( /\ action[p] = "Execute"
            /\ pc[p] \in {"decided", "defer"}
            /\ pc'[p] \in {"defer", "drop"}
            /\ pc'[p] # pc[p]
            /\ ~hist'[p].compiled ) => slot' = slot]_vars

\* An invocation has executed a slot compiled one cache age before, without
\* compiling, and its sweep by age has found the metadata file as old as the
\* compilation left it and has removed the slot.
C27_Witness ==
    \E p \in Procs :
        /\ pc[p] = "swept"
        /\ sweep[p].ctx = "age"
        /\ action[p] = "Execute"
        /\ hist[p].decided
        /\ ~hist[p].compiled
        /\ \E e \in DirExams(p) :
            /\ e.child = pkg_path[p]
            /\ e.opened
            /\ e.mtime = now - MAX_CACHE_AGE_MS
            /\ e.attempt

\* C28: while an invocation q is between create_dir_all and write_pkg_metadata of
\* compile, its slot directory is there, whatever sweep another invocation p, at
\* work on another identifier, performs.
C28_SweepSparesCompilingSlot ==
    \A p, q \in Procs :
        ( /\ p # q
          /\ pkg_path[p] # pkg_path[q]
          /\ hist[q].made
          /\ pc[q] \in {"write", "build", "write_meta"} ) => pkg_path[q] \in DOMAIN slot

====
